---- MODULE Spec2Model ----
(***************************************************************************)
(* Model of nerc_tracker.py: the row-level diff of two spreadsheets        *)
(* (compute_row_set, build_diff_report) and the daily run (main) with its  *)
(* snapshot file and its e-mail notification.                              *)
(*                                                                         *)
(* Text is a sequence of chunks.  A chunk is one character (" ", "|",      *)
(* "\n", a digit, a letter) or one of the fixed phrases the program        *)
(* writes; the phrase the program searches for is a chunk of its own, so   *)
(* that "x in text" is containment of a contiguous sub-sequence.           *)
(***************************************************************************)
EXTENDS Integers, Sequences, FiniteSets, TLC

VARIABLES
    old_bytes,      \* build_diff_report: first argument
    new_bytes,      \* build_diff_report: second argument
    max_sample,     \* build_diff_report: sample cap
    added,          \* build_diff_report: local `added`
    removed,        \* build_diff_report: local `removed`
    report,         \* text returned by build_diff_report (main's `report`)
    snapshot,       \* contents of SNAPSHOT_PATH, or NoFile
    pc,             \* position of the run inside main / send_email
    excel_bytes,    \* main: payload downloaded in this run
    changed,        \* main: the flag derived from the report
    subject,        \* main: subject of the message
    body,           \* main: body of the message
    GMAIL_USER,     \* environment of the process
    GMAIL_PASS,     \* environment of the process
    smtp_open,      \* number of SMTP connections opened by this run
    outbox,         \* messages this run handed to the mail server
    error,          \* exception that ended the run, or NoError
    snapshot_at_start,  \* history: the snapshot file when the run began
    parse_calls     \* history: calls of bytes_to_dataframe in this run

diff_vars == <<old_bytes, new_bytes, max_sample, added, removed, report>>
run_vars == <<snapshot, pc, excel_bytes, changed, subject, body, GMAIL_USER,
              GMAIL_PASS, smtp_open, outbox, error, snapshot_at_start,
              parse_calls>>
vars == <<diff_vars, run_vars>>

----------------------------------------------------------------------------
(* Bounds of the model *)

MaxOldRows == 2
MaxNewRows == 2
MaxSample == 2

----------------------------------------------------------------------------
(* Text *)

NL == "\n"
SP == " "
NEEDLE == "No row-level changes detected"
SENTINEL_TAIL == " (files are identical at row level)."

\* Characters that can occur in a cell, in code point order.
Alphabet == <<SP, "0", "1", "2", "3", "4", "5", "6", "7", "8", "9", NEEDLE, "a", "b">>

Ord(c) == CHOOSE i \in 1..Len(Alphabet) : Alphabet[i] = c

Digits == <<"0", "1", "2", "3", "4", "5", "6", "7", "8", "9">>

RECURSIVE IntToStr(_)
IntToStr(n) ==
    IF n < 10 THEN <<Digits[n + 1]>>
    ELSE IntToStr(n \div 10) \o <<Digits[(n % 10) + 1]>>

RECURSIVE lstrip(_)
lstrip(s) == IF s # <<>> /\ Head(s) = SP THEN lstrip(Tail(s)) ELSE s

RECURSIVE rstrip(_)
rstrip(s) ==
    IF s # <<>> /\ s[Len(s)] = SP THEN rstrip(SubSeq(s, 1, Len(s) - 1)) ELSE s

\* Variant: the cell text is kept as it is.
strip_nothing(s) == s

\* str.strip()
strip(s) == rstrip(lstrip(s))

\* str.__lt__ : lexicographic by code point, a proper prefix is smaller.
RECURSIVE StrLess(_, _)
StrLess(s, t) ==
    IF t = <<>> THEN FALSE
    ELSE IF s = <<>> THEN TRUE
    ELSE IF Head(s) # Head(t) THEN Ord(Head(s)) < Ord(Head(t))
    ELSE StrLess(Tail(s), Tail(t))

\* tuple.__lt__ : the first differing position decides, a proper prefix is smaller.
RECURSIVE TupleLess(_, _)
TupleLess(r, q) ==
    IF q = <<>> THEN FALSE
    ELSE IF r = <<>> THEN TRUE
    ELSE IF Head(r) # Head(q) THEN StrLess(Head(r), Head(q))
    ELSE TupleLess(Tail(r), Tail(q))

\* sep.join(parts)
RECURSIVE join(_, _)
join(sep, parts) ==
    IF parts = <<>> THEN <<>>
    ELSE IF Len(parts) = 1 THEN parts[1]
    ELSE parts[1] \o sep \o join(sep, Tail(parts))

\* needle in text
Contains(text, needle) ==
    \E i \in 1..(Len(text) - Len(needle) + 1) :
        SubSeq(text, i, i + Len(needle) - 1) = needle

----------------------------------------------------------------------------
(* Cells, rows, spreadsheets *)

NaN == [kind |-> "nan"]
Text(s) == [kind |-> "text", s |-> s]
Num(n) == [kind |-> "int", n |-> n]

\* The rows a sheet of the model can hold (two columns; the header row that
\* read_excel consumes is not part of the data and is left out).
RowB == <<Text(<<"b">>), NaN>>
RowBEmpty == <<Text(<<"b">>), Text(<<>>)>>
RowBSpace == <<Text(<<"b">>), Text(<<SP>>)>>
RowBA == <<Text(<<SP, "b">>), Text(<<"a", SP>>)>>
RowNum == <<Num(10), NaN>>
RowNeedle == <<Text(<<NEEDLE>>), Text(<<>>)>>

RawRows == {RowB, RowBEmpty, RowBSpace, RowBA, RowNum}

RECURSIVE SeqsUpTo(_, _)
SeqsUpTo(S, n) ==
    IF n = 0 THEN {<<>>}
    ELSE LET shorter == SeqsUpTo(S, n - 1)
         IN  shorter \cup {Append(q, x) : q \in {p \in shorter : Len(p) = n - 1}, x \in S}

OldSheets == SeqsUpTo(RawRows, MaxOldRows)
NewSheets == SeqsUpTo(RawRows, MaxNewRows)

Xlsx(sheet) == [format |-> "xlsx", sheet |-> sheet]
NotXlsx == [format |-> "html", sheet |-> <<>>]

ParseError == "ParseError"

\* pd.read_excel(buffer, sheet_name=0)
bytes_to_dataframe(file_bytes) ==
    IF file_bytes.format = "xlsx" THEN file_bytes.sheet ELSE ParseError

\* df.fillna("")
fillna(df) ==
    [i \in DOMAIN df |->
        [j \in DOMAIN df[i] |-> IF df[i][j].kind = "nan" THEN Text(<<>>) ELSE df[i][j]]]

\* str(v)
str(v) == IF v.kind = "int" THEN IntToStr(v.n) ELSE v.s

\* tuple(str(v).strip() for v in row.tolist())
row_tuple(row) == [j \in DOMAIN row |-> strip(str(row[j]))]

compute_row_set(df) ==
    LET df_filled == fillna(df)
    IN  {row_tuple(df_filled[i]) : i \in DOMAIN df_filled}

----------------------------------------------------------------------------
(* build_diff_report *)

\* The orders in which a Python set may be iterated.
IterationOrders(S) ==
    {q \in [1..Cardinality(S) -> S] : \A i, j \in DOMAIN q : i # j => q[i] # q[j]}

RECURSIVE insert_sorted(_, _)
insert_sorted(x, q) ==
    IF q = <<>> THEN <<x>>
    ELSE IF TupleLess(x, Head(q)) THEN <<x>> \o q
    ELSE <<Head(q)>> \o insert_sorted(x, Tail(q))

\* Variant: the rows are rendered in iteration order.
unsorted(it) == it

\* sorted(iterable), over the iteration order `it`
RECURSIVE sorted(_)
sorted(it) == IF it = <<>> THEN <<>> ELSE insert_sorted(Head(it), sorted(Tail(it)))

\* Variant: operands exchanged.
set_difference_swapped(S, T) == T \ S

\* S - T
set_difference(S, T) == S \ T

TruncationLine(n, what) == <<"... (">> \o IntToStr(n) \o <<" more ", what, " rows)">>

\* Variant: `>` in place of `>=`.
at_cap_late(i, cap) == i > cap

\* if i >= max_sample
at_cap(i, cap) == i >= cap

\* for i, row in enumerate(rows): if i >= max_sample: append notice; break
\*                                append " | ".join(row)
RECURSIVE sample_loop(_, _, _, _)
sample_loop(rows, i, cap, what) ==
    IF i >= Len(rows) THEN <<>>
    ELSE IF at_cap(i, cap) THEN <<TruncationLine(Len(rows) - cap, what)>>
    ELSE <<join(<<SP, "|", SP>>, rows[i + 1])>> \o sample_loop(rows, i + 1, cap, what)

ADDED_HEADER == <<"=== Added rows (sample) ===">>
REMOVED_HEADER == <<"=== Removed rows (sample) ===">>
SENTINEL == <<NEEDLE, SENTINEL_TAIL>>

\* Variant: `or` in place of `and`.
no_changes_either(add_it, rem_it) == add_it = <<>> \/ rem_it = <<>>

\* if not added and not removed
no_changes(add_it, rem_it) == add_it = <<>> /\ rem_it = <<>>

\* `lines` of build_diff_report; add_it and rem_it are the orders in which
\* sorted() happens to read the sets `added` and `removed`.
report_lines(old_set, new_set, add_it, rem_it, cap) ==
    <<  <<"Total rows yesterday: ">> \o IntToStr(Cardinality(old_set)),
        <<"Total rows today    : ">> \o IntToStr(Cardinality(new_set)),
        <<"Rows added          : ">> \o IntToStr(Len(add_it)),
        <<"Rows removed        : ">> \o IntToStr(Len(rem_it)),
        <<>> >>
    \o (IF add_it # <<>>
        THEN <<ADDED_HEADER>> \o sample_loop(sorted(add_it), 0, cap, "added") \o << <<>> >>
        ELSE <<>>)
    \o (IF rem_it # <<>>
        THEN <<REMOVED_HEADER>> \o sample_loop(sorted(rem_it), 0, cap, "removed")
        ELSE <<>>)
    \o (IF no_changes(add_it, rem_it) THEN <<SENTINEL>> ELSE <<>>)

\* The call build_diff_report(ob, nb, cap) when both payloads parse.
build_diff_report(ob, nb, cap) ==
    LET old_set == compute_row_set(bytes_to_dataframe(ob))
        new_set == compute_row_set(bytes_to_dataframe(nb))
    IN  /\ old_bytes' = ob
        /\ new_bytes' = nb
        /\ max_sample' = cap
        /\ added' = set_difference(new_set, old_set)
        /\ removed' = set_difference(old_set, new_set)
        /\ \E add_it \in IterationOrders(added'), rem_it \in IterationOrders(removed') :
              report' = join(<<NL>>, report_lines(old_set, new_set, add_it, rem_it, cap))

----------------------------------------------------------------------------
(* The diff on its own: every pair of sheets, every cap up to MaxSample *)

NoFile == [format |-> "no file", sheet |-> <<>>]
NoBytes == [format |-> "unbound", sheet |-> <<>>]
NoReport == <<>>
NoError == "no error"
Unset == [isset |-> FALSE, value |-> <<>>]
Env(v) == [isset |-> TRUE, value |-> v]

RunIdle ==
    /\ snapshot = NoFile
    /\ pc = "idle"
    /\ excel_bytes = NoBytes
    /\ changed = FALSE
    /\ subject = <<>>
    /\ body = <<>>
    /\ GMAIL_USER = Unset
    /\ GMAIL_PASS = Unset
    /\ smtp_open = 0
    /\ outbox = <<>>
    /\ error = NoError
    /\ snapshot_at_start = NoFile
    /\ parse_calls = 0

InitDiff ==
    /\ old_bytes \in {Xlsx(s) : s \in OldSheets}
    /\ new_bytes \in {Xlsx(s) : s \in NewSheets}
    /\ max_sample \in 0..MaxSample
    /\ added = {}
    /\ removed = {}
    /\ report = NoReport
    /\ RunIdle

DiffCall ==
    /\ report = NoReport
    /\ build_diff_report(old_bytes, new_bytes, max_sample)
    /\ UNCHANGED run_vars

NextDiff == DiffCall

SpecDiff == InitDiff /\ [][NextDiff]_vars

----------------------------------------------------------------------------
(* The daily run: main, download_excel, send_email *)

DEFAULT_MAX_SAMPLE == 20
TODAY == "<today_str>"

\* Bodies the server can answer with a success status.
RunSheets == {<<RowB>>, <<RowBSpace, RowB, RowB>>, <<RowB, RowBA>>, <<RowB, RowNeedle>>}
Payloads == {NotXlsx} \cup {Xlsx(s) : s \in RunSheets}

\* Values os.environ.get can give for a credential.
EnvValues == {Unset, Env(<<>>), Env(<<"x">>)}

\* `not v` for a value of the environment
falsy(v) == ~v.isset \/ v.value = <<>>

BASELINE_BODY ==
    <<"This is the first run of the NERC One Stop Shop tracker.", NL,
      "Today's file has been stored as the baseline. No diff to report yet.", NL>>

diff_body(rep) ==
    <<"NERC One Stop Shop daily check for ", TODAY, ".", NL, NL>> \o rep
        \o <<NL, NL, "--", NL,
             "This email was generated automatically by your NERC tracking bot.">>

diff_subject(chg) ==
    IF chg THEN <<"[NERC One Stop Shop] Changes detected for ", TODAY>>
    ELSE <<"[NERC One Stop Shop] No changes detected for ", TODAY>>

BASELINE_SUBJECT == <<"[NERC One Stop Shop] Initial snapshot stored (", TODAY, ")">>

\* Variant: the existence test is dropped.
snapshot_assumed == TRUE

\* SNAPSHOT_PATH.exists()
snapshot_exists == snapshot # NoFile

\* "No row-level changes detected" not in report
changed_flag(rep) == ~Contains(rep, <<NEEDLE>>)

Init ==
    /\ old_bytes = NoBytes
    /\ new_bytes = NoBytes
    /\ max_sample = DEFAULT_MAX_SAMPLE
    /\ added = {}
    /\ removed = {}
    /\ report = NoReport
    /\ RunIdle

\* The scheduler starts the script: a new process reads its environment.
Invoke(user, pass) ==
    /\ pc \in {"idle", "done", "error"}
    /\ pc' = "download"
    /\ GMAIL_USER' = user
    /\ GMAIL_PASS' = pass
    /\ snapshot_at_start' = snapshot
    /\ excel_bytes' = NoBytes
    /\ changed' = FALSE
    /\ subject' = <<>>
    /\ body' = <<>>
    /\ smtp_open' = 0
    /\ outbox' = <<>>
    /\ error' = NoError
    /\ parse_calls' = 0
    /\ old_bytes' = NoBytes
    /\ new_bytes' = NoBytes
    /\ max_sample' = DEFAULT_MAX_SAMPLE
    /\ added' = {}
    /\ removed' = {}
    /\ report' = NoReport
    /\ UNCHANGED snapshot

\* Variant: the download stores the payload at once.
download_excel_and_store(content) ==
    /\ pc = "download"
    /\ excel_bytes' = content
    /\ snapshot' = content
    /\ pc' = "fetched"
    /\ UNCHANGED <<diff_vars, changed, subject, body, GMAIL_USER, GMAIL_PASS,
                   smtp_open, outbox, error, snapshot_at_start, parse_calls>>

\* Variant: the snapshot is not written before the message is sent.
main_skip_write ==
    /\ pc = "persist"
    /\ pc' = "send_email"
    /\ UNCHANGED <<diff_vars, snapshot, excel_bytes, changed, subject, body, GMAIL_USER,
                   GMAIL_PASS, smtp_open, outbox, error, snapshot_at_start, parse_calls>>

\* download_excel returns resp.content
download_excel_ok(content) ==
    /\ pc = "download"
    /\ excel_bytes' = content
    /\ pc' = "fetched"
    /\ UNCHANGED <<diff_vars, snapshot, changed, subject, body, GMAIL_USER, GMAIL_PASS,
                   smtp_open, outbox, error, snapshot_at_start, parse_calls>>

\* requests.get raises, or raise_for_status raises
download_excel_fails(exc) ==
    /\ pc = "download"
    /\ error' = exc
    /\ pc' = "error"
    /\ UNCHANGED <<diff_vars, snapshot, excel_bytes, changed, subject, body, GMAIL_USER,
                   GMAIL_PASS, smtp_open, outbox, snapshot_at_start, parse_calls>>

\* main, SNAPSHOT_PATH.exists(): read the snapshot, build the report, subject and body
main_diff ==
    /\ pc = "fetched"
    /\ snapshot_exists
    /\ bytes_to_dataframe(snapshot) # ParseError
    /\ bytes_to_dataframe(excel_bytes) # ParseError
    /\ build_diff_report(snapshot, excel_bytes, DEFAULT_MAX_SAMPLE)
    /\ parse_calls' = 2
    /\ changed' = changed_flag(report')
    /\ subject' = diff_subject(changed')
    /\ body' = diff_body(report')
    /\ pc' = "persist"
    /\ UNCHANGED <<snapshot, excel_bytes, GMAIL_USER, GMAIL_PASS, smtp_open, outbox,
                   error, snapshot_at_start>>

\* main, SNAPSHOT_PATH.exists(): pd.read_excel raises inside build_diff_report
main_diff_parse_error ==
    /\ pc = "fetched"
    /\ snapshot_exists
    /\ \/ /\ bytes_to_dataframe(snapshot) = ParseError
          /\ parse_calls' = 1
       \/ /\ bytes_to_dataframe(snapshot) # ParseError
          /\ bytes_to_dataframe(excel_bytes) = ParseError
          /\ parse_calls' = 2
    /\ error' = ParseError
    /\ pc' = "error"
    /\ UNCHANGED <<diff_vars, snapshot, excel_bytes, changed, subject, body, GMAIL_USER,
                   GMAIL_PASS, smtp_open, outbox, snapshot_at_start>>

\* main, no snapshot file: first run
main_baseline ==
    /\ pc = "fetched"
    /\ ~snapshot_exists
    /\ subject' = BASELINE_SUBJECT
    /\ body' = BASELINE_BODY
    /\ pc' = "persist"
    /\ UNCHANGED <<diff_vars, snapshot, excel_bytes, changed, GMAIL_USER, GMAIL_PASS,
                   smtp_open, outbox, error, snapshot_at_start, parse_calls>>

\* SNAPSHOT_PATH.write_bytes(excel_bytes); the disk is taken to accept the write.
main_write_snapshot ==
    /\ pc = "persist"
    /\ snapshot' = excel_bytes
    /\ pc' = "send_email"
    /\ UNCHANGED <<diff_vars, excel_bytes, changed, subject, body, GMAIL_USER, GMAIL_PASS,
                   smtp_open, outbox, error, snapshot_at_start, parse_calls>>

\* send_email: if not GMAIL_USER or not GMAIL_PASS: raise RuntimeError
send_email_no_credentials ==
    /\ pc = "send_email"
    /\ falsy(GMAIL_USER) \/ falsy(GMAIL_PASS)
    /\ error' = "RuntimeError"
    /\ pc' = "error"
    /\ UNCHANGED <<diff_vars, snapshot, excel_bytes, changed, subject, body, GMAIL_USER,
                   GMAIL_PASS, smtp_open, outbox, snapshot_at_start, parse_calls>>

\* send_email: smtplib.SMTP("smtp.gmail.com", 587, timeout=60)
send_email_connect ==
    /\ pc = "send_email"
    /\ ~(falsy(GMAIL_USER) \/ falsy(GMAIL_PASS))
    /\ smtp_open' = smtp_open + 1
    /\ pc' = "smtp"
    /\ UNCHANGED <<diff_vars, snapshot, excel_bytes, changed, subject, body, GMAIL_USER,
                   GMAIL_PASS, outbox, error, snapshot_at_start, parse_calls>>

\* send_email: the connection, starttls, login or send_message raises
send_email_smtp_error(stage) ==
    /\ \/ /\ stage = "connect"
          /\ pc = "send_email"
          /\ ~(falsy(GMAIL_USER) \/ falsy(GMAIL_PASS))
       \/ /\ stage \in {"starttls", "login", "send_message"}
          /\ pc = "smtp"
    /\ error' = "SMTPException"
    /\ pc' = "error"
    /\ UNCHANGED <<diff_vars, snapshot, excel_bytes, changed, subject, body, GMAIL_USER,
                   GMAIL_PASS, smtp_open, outbox, snapshot_at_start, parse_calls>>

\* send_email: server.send_message(msg) returns
send_email_sent ==
    /\ pc = "smtp"
    /\ outbox' = <<[Subject |-> subject, From |-> GMAIL_USER.value, content |-> body]>>
    /\ pc' = "done"
    /\ UNCHANGED <<diff_vars, snapshot, excel_bytes, changed, subject, body, GMAIL_USER,
                   GMAIL_PASS, smtp_open, error, snapshot_at_start, parse_calls>>

Next ==
    \/ \E user \in EnvValues, pass \in EnvValues : Invoke(user, pass)
    \/ \E content \in Payloads : download_excel_ok(content)
    \/ \E exc \in {"ConnectionError", "Timeout", "HTTPError"} : download_excel_fails(exc)
    \/ main_diff
    \/ main_diff_parse_error
    \/ main_baseline
    \/ main_write_snapshot
    \/ send_email_no_credentials
    \/ send_email_connect
    \/ \E stage \in {"connect", "starttls", "login", "send_message"} :
          send_email_smtp_error(stage)
    \/ send_email_sent

Spec == Init /\ [][Next]_vars

----------------------------------------------------------------------------
(* Reading a report back *)

RECURSIVE Split(_)
Split(text) ==
    IF \A i \in DOMAIN text : text[i] # NL THEN <<text>>
    ELSE LET k == CHOOSE i \in DOMAIN text :
                      text[i] = NL /\ \A j \in 1..(i - 1) : text[j] # NL
         IN  <<SubSeq(text, 1, k - 1)>> \o Split(SubSeq(text, k + 1, Len(text)))

DigitValue(c) == (CHOOSE i \in DOMAIN Digits : Digits[i] = c) - 1

RECURSIVE ParseInt(_)
ParseInt(ds) ==
    IF Len(ds) = 1 THEN DigitValue(ds[1])
    ELSE 10 * ParseInt(SubSeq(ds, 1, Len(ds) - 1)) + DigitValue(ds[Len(ds)])

IsNumber(ds) == ds # <<>> /\ \A i \in DOMAIN ds : \E d \in DOMAIN Digits : Digits[d] = ds[i]

\* The line is `label` followed by the decimal numeral of n.
Counts(line, label, n) ==
    /\ line # <<>>
    /\ Head(line) = label
    /\ IsNumber(Tail(line))
    /\ ParseInt(Tail(line)) = n

Min(a, b) == IF a <= b THEN a ELSE b

Returned == report # NoReport
RowSetOld == compute_row_set(bytes_to_dataframe(old_bytes))
RowSetNew == compute_row_set(bytes_to_dataframe(new_bytes))
ReportLines == Split(report)

Render(r) == r[1] \o <<SP, "|", SP>> \o r[2]

----------------------------------------------------------------------------
(* C1: for every pair of datasets with row sets A (previous) and B          *)
(* (current), added = B \ A and removed = A \ B, the two are disjoint, and  *)
(* the four counts written in the report are |A|, |B|, |B \ A|, |A \ B|.    *)

C1_DiffSetsAndCounts ==
    Returned =>
        LET A == RowSetOld
            B == RowSetNew
            L == ReportLines
        IN  /\ added = {r \in B : r \notin A}
            /\ removed = {r \in A : r \notin B}
            /\ added \cap removed = {}
            /\ Len(L) >= 5
            /\ Counts(L[1], "Total rows yesterday: ", Cardinality(A))
            /\ Counts(L[2], "Total rows today    : ", Cardinality(B))
            /\ Counts(L[3], "Rows added          : ", Cardinality({r \in B : r \notin A}))
            /\ Counts(L[4], "Rows removed        : ", Cardinality({r \in A : r \notin B}))
            /\ L[5] = <<>>

C1_Witness ==
    /\ Returned
    /\ added # {}
    /\ removed # {}
    /\ Cardinality(RowSetOld) # Cardinality(removed)
    /\ RowSetOld \cap RowSetNew # {}

----------------------------------------------------------------------------
(* C2: diffing a dataset against itself gives empty added and removed sets, *)
(* counts 0 and 0, no added and no removed section and the sentinel line;   *)
(* and the sentinel line is appended only when added and removed are both   *)
(* empty.                                                                   *)
(* (A rendered row of the model holds " | ", so no row line, header or      *)
(* truncation line equals the sentinel line: a sentinel line in the report  *)
(* is one the last step appended.)                                          *)

C2_Idempotence ==
    Returned =>
        LET L == ReportLines
        IN  /\ old_bytes = new_bytes =>
                /\ added = {}
                /\ removed = {}
                /\ Len(L) = 6
                /\ Counts(L[3], "Rows added          : ", 0)
                /\ Counts(L[4], "Rows removed        : ", 0)
                /\ L[5] = <<>>
                /\ L[6] = SENTINEL
                /\ \A i \in DOMAIN L : L[i] # ADDED_HEADER /\ L[i] # REMOVED_HEADER
            /\ (L[Len(L)] = SENTINEL) <=> (added = {} /\ removed = {})
            /\ (\E i \in DOMAIN L : L[i] = SENTINEL) => Len(L) = 6

C2_Witness ==
    /\ Returned
    /\ old_bytes = new_bytes
    /\ RowSetOld # {}
    /\ ReportLines[6] = SENTINEL

----------------------------------------------------------------------------
(* C3: with cap N the added section renders exactly min(|added|, N) rows;   *)
(* when |added| > N they are followed by exactly one truncation line        *)
(* stating |added| - N, and when |added| <= N by none.  The same for the    *)
(* removed section.                                                         *)

IsTruncation(line, what, n) ==
    /\ Len(line) >= 4
    /\ line[1] = "... ("
    /\ SubSeq(line, Len(line) - 2, Len(line)) = <<" more ", what, " rows)">>
    /\ IsNumber(SubSeq(line, 2, Len(line) - 3))
    /\ ParseInt(SubSeq(line, 2, Len(line) - 3)) = n

\* Lines from..(from + Length - 1) of L are one section over the set S:
\* its header, min(|S|, N) distinct rows of S, a truncation line iff |S| > N.
Section(L, from, header, S, what, N) ==
    LET shown == Min(Cardinality(S), N)
    IN  /\ L[from] = header
        /\ \A i \in 1..shown : \E r \in S : L[from + i] = Render(r)
        /\ \A i, j \in 1..shown : i # j => L[from + i] # L[from + j]
        /\ Cardinality(S) > N =>
              IsTruncation(L[from + shown + 1], what, Cardinality(S) - N)

SectionLength(S, N) ==
    IF S = {} THEN 0
    ELSE 1 + Min(Cardinality(S), N) + (IF Cardinality(S) > N THEN 1 ELSE 0)

C3_SampleCap ==
    Returned =>
        LET L == ReportLines
            N == max_sample
            a == SectionLength(added, N)
            r == SectionLength(removed, N)
            blank == IF added = {} THEN 0 ELSE 1
            last == IF added = {} /\ removed = {} THEN 1 ELSE 0
        IN  /\ Len(L) = 5 + a + blank + r + last
            /\ added # {} =>
                  /\ Section(L, 6, ADDED_HEADER, added, "added", N)
                  /\ L[6 + a] = <<>>
            /\ removed # {} =>
                  Section(L, 6 + a + blank, REMOVED_HEADER, removed, "removed", N)

C3_Witness ==
    /\ Returned
    /\ Cardinality(added) > max_sample
    /\ max_sample > 0
    /\ removed # {}
    /\ Cardinality(removed) <= max_sample

----------------------------------------------------------------------------
(* C4: the report text is a function of the previous row set, the current   *)
(* row set and max_sample only, whatever the order and the repetitions of   *)
(* the rows in the datasets; the rows of a section appear in ascending      *)
(* lexicographic order of their tuples, so the sampled rows are the N       *)
(* smallest.                                                                *)

Smallest(S) == CHOOSE r \in S : \A q \in S \ {r} : TupleLess(r, q)

RECURSIVE Ascending(_)
Ascending(S) == IF S = {} THEN <<>> ELSE <<Smallest(S)>> \o Ascending(S \ {Smallest(S)})

CanonicalSection(header, S, what, N) ==
    IF S = {} THEN <<>>
    ELSE <<header>>
         \o [i \in 1..Min(Cardinality(S), N) |-> Render(Ascending(S)[i])]
         \o (IF Cardinality(S) > N
             THEN <<TruncationLine(Cardinality(S) - N, what)>> ELSE <<>>)

\* The report as a function of the two row sets and the cap.
CanonicalReport(A, B, N) ==
    join(<<NL>>,
         << <<"Total rows yesterday: ">> \o IntToStr(Cardinality(A)),
            <<"Total rows today    : ">> \o IntToStr(Cardinality(B)),
            <<"Rows added          : ">> \o IntToStr(Cardinality(B \ A)),
            <<"Rows removed        : ">> \o IntToStr(Cardinality(A \ B)),
            <<>> >>
         \o CanonicalSection(ADDED_HEADER, B \ A, "added", N)
         \o (IF B \ A = {} THEN <<>> ELSE << <<>> >>)
         \o CanonicalSection(REMOVED_HEADER, A \ B, "removed", N)
         \o (IF A = B THEN <<SENTINEL>> ELSE <<>>))

C4_Determinism ==
    Returned => report = CanonicalReport(RowSetOld, RowSetNew, max_sample)

\* A sheet with a repeated row and rows out of order, a sample that is cut.
C4_Witness ==
    /\ Returned
    /\ Len(old_bytes.sheet) > Cardinality(RowSetOld)
    /\ Cardinality(added) >= 2
    /\ max_sample >= 1
    /\ Cardinality(added) > max_sample
    /\ \E i \in DOMAIN new_bytes.sheet : \E j \in DOMAIN new_bytes.sheet :
          /\ i < j
          /\ TupleLess(row_tuple(fillna(new_bytes.sheet)[j]),
                       row_tuple(fillna(new_bytes.sheet)[i]))

----------------------------------------------------------------------------
(* C5: compute_row_set maps a missing cell to the empty string and every    *)
(* other cell to its trimmed string form, so rows that differ only in a     *)
(* missing cell against an empty or whitespace-only text give the same      *)
(* tuple and are never reported as added or removed against each other;     *)
(* rows whose tuples differ at some position are distinct.                  *)

AllSpaces(s) == \A i \in DOMAIN s : s[i] = SP

\* t is s without its leading and trailing whitespace
TrimOf(s, t) ==
    /\ t = <<>> \/ (t[1] # SP /\ t[Len(t)] # SP)
    /\ \E i \in 0..Len(s) :
          /\ i + Len(t) <= Len(s)
          /\ AllSpaces(SubSeq(s, 1, i))
          /\ SubSeq(s, i + 1, i + Len(t)) = t
          /\ AllSpaces(SubSeq(s, i + Len(t) + 1, Len(s)))

Blank(c) == c.kind = "nan" \/ (c.kind = "text" /\ AllSpaces(c.s))

SameButBlanks(r, q) ==
    /\ Len(r) = Len(q)
    /\ \A j \in DOMAIN r : r[j] = q[j] \/ (Blank(r[j]) /\ Blank(q[j]))

\* The tuple of a raw row, as compute_row_set makes it.
TupleOf(r) == row_tuple(fillna(<<r>>)[1])

Normalized(r) ==
    \A j \in DOMAIN r :
        IF r[j].kind = "nan" THEN TupleOf(r)[j] = <<>>
        ELSE TrimOf(str(r[j]), TupleOf(r)[j])

C5_Normalization ==
    Returned =>
        LET old == old_bytes.sheet
            new == new_bytes.sheet
        IN  /\ \A i \in DOMAIN old : Normalized(old[i])
            /\ \A i \in DOMAIN new : Normalized(new[i])
            /\ \A i \in DOMAIN old : \A k \in DOMAIN new :
                  /\ SameButBlanks(old[i], new[k]) =>
                        /\ TupleOf(old[i]) = TupleOf(new[k])
                        /\ TupleOf(new[k]) \notin added
                        /\ TupleOf(old[i]) \notin removed
            /\ \A k \in DOMAIN new :
                  (\A i \in DOMAIN old :
                      \E j \in 1..2 : TupleOf(old[i])[j] # TupleOf(new[k])[j])
                  => TupleOf(new[k]) \in added
            /\ \A i \in DOMAIN old :
                  (\A k \in DOMAIN new :
                      \E j \in 1..2 : TupleOf(old[i])[j] # TupleOf(new[k])[j])
                  => TupleOf(old[i]) \in removed

C5_Witness ==
    /\ Returned
    /\ old_bytes.sheet = <<RowB, RowBA>>
    /\ new_bytes.sheet = <<RowBSpace, RowBEmpty>>
    /\ added = {}
    /\ removed = {<<(<<"b">>), (<<"a">>)>>}

----------------------------------------------------------------------------
(* Positions of a run *)

FetchSucceeded == excel_bytes # NoBytes
AfterWrite == pc \in {"send_email", "smtp", "done"}
FetchErrors == {"ConnectionError", "Timeout", "HTTPError"}
MailErrors == {"RuntimeError", "SMTPException"}
FirstRun == snapshot_at_start = NoFile /\ pc # "idle"

----------------------------------------------------------------------------
(* C6: when no snapshot file exists at the start of a run and the fetch     *)
(* succeeds, the parser and the differ are not invoked, the notification is *)
(* the baseline-stored message with no diff section, and after the run the  *)
(* snapshot file holds exactly the bytes fetched in that run; the absence   *)
(* of the file is never an error.                                           *)

C6_FirstRun ==
    (FirstRun /\ FetchSucceeded) =>
        /\ parse_calls = 0
        /\ report = NoReport
        /\ error \in {NoError} \cup MailErrors
        /\ pc # "fetched" =>
              /\ subject = BASELINE_SUBJECT
              /\ body = BASELINE_BODY
              /\ ~Contains(body, <<"Total rows yesterday: ">>)
        /\ pc \in {"done", "error"} =>
              /\ snapshot # NoFile
              /\ snapshot = excel_bytes
        /\ outbox # <<>> =>
              /\ outbox[1].Subject = BASELINE_SUBJECT
              /\ outbox[1].content = BASELINE_BODY

C6_Witness ==
    /\ FirstRun
    /\ pc = "done"
    /\ Len(outbox) = 1
    /\ snapshot = excel_bytes
    /\ snapshot # NoFile

----------------------------------------------------------------------------
(* C7: in every run the snapshot is overwritten before any notification     *)
(* attempt, on both branches; so a run whose send_email fails ends in error *)
(* with the snapshot already holding the payload fetched in that run, and   *)
(* the missing-credentials error is raised before any SMTP connection is    *)
(* opened.                                                                  *)

C7_PersistBeforeNotify ==
    /\ (AfterWrite \/ smtp_open > 0 \/ outbox # <<>>) => snapshot = excel_bytes
    /\ (pc = "error" /\ error \in MailErrors) =>
          /\ FetchSucceeded
          /\ snapshot = excel_bytes
          /\ outbox = <<>>
    /\ (pc = "error" /\ error = "RuntimeError") => smtp_open = 0
    /\ (falsy(GMAIL_USER) \/ falsy(GMAIL_PASS)) => smtp_open = 0 /\ outbox = <<>>

\* The diff branch: the mail fails and the previous baseline is gone.
C7_Witness ==
    /\ pc = "error"
    /\ error = "SMTPException"
    /\ report # NoReport
    /\ snapshot_at_start # NoFile
    /\ snapshot # snapshot_at_start
    /\ snapshot = excel_bytes

----------------------------------------------------------------------------
(* C8: in every run that has a previous snapshot, the flag `changed` is     *)
(* true iff added or removed is non-empty, so the subject says "Changes     *)
(* detected" exactly then and "No changes detected" otherwise, whatever     *)
(* text the cells hold.                                                     *)

C8_ChangedIffDiff ==
    (report # NoReport /\ pc \in {"persist", "send_email", "smtp", "done", "error"}) =>
        /\ changed <=> (added # {} \/ removed # {})
        /\ subject = diff_subject(added # {} \/ removed # {})

----------------------------------------------------------------------------
(* C9: if the fetch fails, or parsing the previous snapshot or the current  *)
(* payload fails, the run ends in error at once, the snapshot file is left  *)
(* as it was at the start of the run and no e-mail is attempted; the        *)
(* snapshot is overwritten only after a successful diff or on a first run.  *)

C9_EarlyFailure ==
    /\ (pc = "error" /\ error \in FetchErrors \cup {ParseError}) =>
          /\ snapshot = snapshot_at_start
          /\ smtp_open = 0
          /\ outbox = <<>>
          /\ report = NoReport
    /\ pc \in {"download", "fetched", "persist"} =>
          /\ snapshot = snapshot_at_start
          /\ error = NoError
    /\ (pc # "idle" /\ snapshot # snapshot_at_start) =>
          /\ snapshot = excel_bytes
          /\ report # NoReport \/ snapshot_at_start = NoFile

\* A parse failure of the current payload: the old bytes stay.
C9_Witness ==
    /\ pc = "error"
    /\ error = ParseError
    /\ parse_calls = 2
    /\ snapshot # NoFile
    /\ snapshot = snapshot_at_start
    /\ excel_bytes = NotXlsx

----------------------------------------------------------------------------
(* C10: over any sequence of runs starting with no snapshot file, the       *)
(* bytes of the snapshot file are a payload that parses as a spreadsheet,   *)
(* so no later run fails on the stored snapshot.                            *)

C10_SnapshotParses ==
    /\ snapshot # NoFile => bytes_to_dataframe(snapshot) # ParseError
    /\ (pc = "error" /\ error = ParseError) =>
          bytes_to_dataframe(excel_bytes) = ParseError

====
